---- MODULE Spec2Model ----
(***************************************************************************)
(* Model of regrid/regrid.py: the grid_ref and regridder classes, their    *)
(* file caches (SCRIP grid files, ESMF weight files) and the stages of     *)
(* regridder.regrid_dataarray.                                             *)
(*                                                                         *)
(* Files are modelled by their content.  A grid file holds the number of   *)
(* the generation that wrote it (0: the file does not exist).  A weight    *)
(* file holds the provenance of the weights: the source grid, destination  *)
(* grid and method handed to the backend and the generations of the two    *)
(* grid files the grids were loaded from.                                  *)
(***************************************************************************)
EXTENDS Integers, Sequences, FiniteSets, TLC

VARIABLES
    gridFiles,    \* the directory config.dir_grid_files: path -> content
    weightFiles,  \* the directory config.dir_weight_files: path -> content
    last,         \* the most recent call: operation, arguments, outcome
    events,       \* what the most recent call did to the files, in order
    gr,           \* the grid_ref the most recent call returned, if any
    rg,           \* the regridder the most recent call returned / was applied to
    defaults,     \* the default argument objects of regrid_dataarray
    da_in,        \* the arguments of regridder.__call__
    da_out        \* the DataArray regridder.__call__ returned

vars == <<gridFiles, weightFiles, last, events, gr, rg, defaults, da_in, da_out>>

(***************************************************************************)
(* Bounds                                                                  *)
(***************************************************************************)
\* a grid file is regenerated until its generation number reaches MaxVersion
MaxVersion == 2
\* the values of a source cell are NaN and the integers 0 .. MaxValue
MaxValue == 1

(***************************************************************************)
(* Configuration (module config) and the names callers pass                *)
(***************************************************************************)
dir_grid_files == "grids"
dir_weight_files == "weights"

\* keys of config.known_grids
known_grids == {"g", "g_to_g"}

\* names a caller may pass: the known grids and one that is not known
GridNames == known_grids \cup {"x"}

Methods == {"bilinear"}

\* the (source, destination) pairs regridders are constructed for
RegridPairs == {<<"g", "g_to_g">>, <<"g_to_g", "g">>, <<"g", "x">>}

(***************************************************************************)
(* Paths                                                                   *)
(***************************************************************************)
\* f'{config.dir_grid_files}/{self.name}.nc'
scrip_grid_file(name) == dir_grid_files \o "/" \o name \o ".nc"

\* '{0}/{1}_to_{2}_{3}.nc'.format(dir_weight_files, src, dst, method)
weight_file(src, dst, method) ==
    dir_weight_files \o "/" \o src \o "_to_" \o dst \o "_" \o method \o ".nc"

GridPaths == {scrip_grid_file(n) : n \in GridNames}

WeightPaths == {weight_file(p[1], p[2], m) : p \in RegridPairs, m \in Methods}

InSeq(x, seq) == \E i \in 1..Len(seq) : seq[i] = x

\* the position of the first x in seq, 0 if there is none
IndexOf(x, seq) ==
    IF InSeq(x, seq) THEN CHOOSE i \in 1..Len(seq) :
                              seq[i] = x /\ \A k \in 1..(i - 1) : seq[k] # x
    ELSE 0

(***************************************************************************)
(* The file system                                                         *)
(***************************************************************************)
Absent == 0

NoMatrix == <<>>

NoWeights ==
    [src |-> "", dst |-> "", method |-> "", vsrc |-> 0, vdst |-> 0,
     S |-> NoMatrix]

\* os.path.exists
exists(files, path, none) == files[path] # none

\* os.remove
remove(files, path, none) == [files EXCEPT ![path] = none]

(***************************************************************************)
(* grid_ref                                                                *)
(***************************************************************************)
\* util.<gen_grid_file method>(name, scrip_grid_file, **kwargs, clobber):
\* writes the SCRIP file of the grid, a new generation of it
gen_grid_method(gf, name, path, clobber) == [gf EXCEPT ![path] = @ + 1]

\* _gen_grid_file returning whenever the file exists, clobber or not
gen_grid_file_ignores_clobber(gf, name, clobber) ==
    LET path == scrip_grid_file(name) IN
    IF exists(gf, path, Absent)
    THEN [ok |-> TRUE, files |-> gf, ev |-> <<>>]
    ELSE IF name \notin known_grids
    THEN [ok |-> FALSE, files |-> gf, ev |-> <<>>]
    ELSE [ok |-> TRUE,
          files |-> gen_grid_method(gf, name, path, clobber),
          ev |-> <<<<"gen_grid", path>>>>]

\* _gen_grid_file asserting the name before it looks for the file
gen_grid_file_asserts_first(gf, name, clobber) ==
    LET path == scrip_grid_file(name) IN
    IF name \notin known_grids
    THEN [ok |-> FALSE, files |-> gf, ev |-> <<>>]
    ELSE IF exists(gf, path, Absent) /\ ~clobber
    THEN [ok |-> TRUE, files |-> gf, ev |-> <<>>]
    ELSE [ok |-> TRUE,
          files |-> gen_grid_method(gf, name, path, clobber),
          ev |-> <<<<"gen_grid", path>>>>]

\* _gen_grid_file regenerating the file of a known grid on every call
gen_grid_file_ignores_existing(gf, name, clobber) ==
    LET path == scrip_grid_file(name) IN
    IF name \notin known_grids
    THEN IF exists(gf, path, Absent) /\ ~clobber
         THEN [ok |-> TRUE, files |-> gf, ev |-> <<>>]
         ELSE [ok |-> FALSE, files |-> gf, ev |-> <<>>]
    ELSE [ok |-> TRUE,
          files |-> gen_grid_method(gf, name, path, clobber),
          ev |-> <<<<"gen_grid", path>>>>]

\* grid_ref._gen_grid_file: the files afterwards, whether the assertion
\* held, and the events of the call
gen_grid_file(gf, name, clobber) ==
    LET path == scrip_grid_file(name) IN
    IF exists(gf, path, Absent) /\ ~clobber
    THEN [ok |-> TRUE, files |-> gf, ev |-> <<>>]
    ELSE IF name \notin known_grids
    THEN [ok |-> FALSE, files |-> gf, ev |-> <<>>]
    ELSE [ok |-> TRUE,
          files |-> gen_grid_method(gf, name, path, clobber),
          ev |-> <<<<"gen_grid", path>>>>]

\* ds.grid_dims of a SCRIP file: every grid of the model has two cells
grid_dims(name) == <<2, 1>>

\* grid_ref._esmf_grid_from_scrip: the dataset and the ESMF grid are read
\* from the SCRIP file; the object holds what the file held at that moment
esmf_grid_from_scrip(gf, name) ==
    [name |-> name,
     scrip_grid_file |-> scrip_grid_file(name),
     grid |-> gf[scrip_grid_file(name)],
     shape |-> grid_dims(name)]

NoObject == [name |-> "", scrip_grid_file |-> "", grid |-> 0, shape |-> <<0, 0>>]

\* grid_ref.__init__
grid_ref(gf, name, clobber) ==
    LET g == gen_grid_file(gf, name, clobber) IN
    IF g.ok
    THEN [ok |-> TRUE, files |-> g.files, ev |-> g.ev,
          obj |-> esmf_grid_from_scrip(g.files, name)]
    ELSE [ok |-> FALSE, files |-> g.files, ev |-> g.ev, obj |-> NoObject]

(***************************************************************************)
(* regridder                                                               *)
(***************************************************************************)
\* xe.backend.esmf_regrid_build + esmf_regrid_finalize: the weights S between
\* the two in-memory grids are computed and written to filename; a failure
\* of the backend raises and writes nothing
esmf_regrid_build(wf, grid_src, grid_dst, filename, method, fails, S) ==
    IF fails
    THEN [ok |-> FALSE, files |-> wf, ev |-> <<<<"build", filename>>>>]
    ELSE [ok |-> TRUE,
          files |-> [wf EXCEPT ![filename] =
                        [src |-> grid_src.name, dst |-> grid_dst.name,
                         method |-> method,
                         vsrc |-> grid_src.grid, vdst |-> grid_dst.grid,
                         S |-> S]],
          ev |-> <<<<"build", filename>>>>]

\* _gen_weights building over an existing file without removing it
gen_weights_no_remove(wf, grid_ref_src, grid_ref_dst, method, clobber, fails, S) ==
    LET path == weight_file(grid_ref_src.name, grid_ref_dst.name, method)
        present == exists(wf, path, NoWeights)
    IN  IF present /\ ~clobber
        THEN [ok |-> TRUE, files |-> wf, ev |-> <<>>]
        ELSE esmf_regrid_build(wf, grid_ref_src, grid_ref_dst,
                               path, method, fails, S)

\* _gen_weights returning whenever the file exists, clobber or not
gen_weights_ignores_clobber(wf, grid_ref_src, grid_ref_dst, method, clobber, fails, S) ==
    LET path == weight_file(grid_ref_src.name, grid_ref_dst.name, method)
        present == exists(wf, path, NoWeights)
    IN  IF present
        THEN [ok |-> TRUE, files |-> wf, ev |-> <<>>]
        ELSE esmf_regrid_build(wf, grid_ref_src, grid_ref_dst,
                               path, method, fails, S)

\* regridder._gen_weights
gen_weights(wf, grid_ref_src, grid_ref_dst, method, clobber, fails, S) ==
    LET path == weight_file(grid_ref_src.name, grid_ref_dst.name, method)
        present == exists(wf, path, NoWeights)
    IN  IF present /\ ~clobber
        THEN [ok |-> TRUE, files |-> wf, ev |-> <<>>]
        ELSE LET wf1 == IF present THEN remove(wf, path, NoWeights) ELSE wf
                 ev1 == IF present THEN <<<<"remove", path>>>> ELSE <<>>
                 b == esmf_regrid_build(wf1, grid_ref_src, grid_ref_dst,
                                        path, method, fails, S)
             IN  [ok |-> b.ok, files |-> b.files, ev |-> ev1 \o b.ev]

\* xe.smm.read_weights(self.weight_file, N_src, N_dst)
read_weights(wf, filename) == wf[filename]

NoRegridder ==
    [name_grid_src |-> "", name_grid_dst |-> "",
     grid_ref_src |-> NoObject, grid_ref_dst |-> NoObject,
     method |-> "", clobber |-> FALSE, N_src |-> 0, N_dst |-> 0,
     weight_file |-> "", A |-> NoWeights]

\* regridder.__init__ reading the weight file before _gen_weights ran
regridder_reads_first(gf, wf, name_grid_src, name_grid_dst, method, clobber, fails, S) ==
    LET s == grid_ref(gf, name_grid_src, FALSE) IN
    IF ~s.ok
    THEN [outcome |-> "AssertionError", gridFiles |-> s.files,
          weightFiles |-> wf, ev |-> s.ev, obj |-> NoRegridder]
    ELSE
    LET d == grid_ref(s.files, name_grid_dst, FALSE) IN
    IF ~d.ok
    THEN [outcome |-> "AssertionError", gridFiles |-> d.files,
          weightFiles |-> wf, ev |-> s.ev \o d.ev, obj |-> NoRegridder]
    ELSE
    LET w == gen_weights(wf, s.obj, d.obj, method, clobber, fails, S)
        path == weight_file(name_grid_src, name_grid_dst, method)
    IN
    IF ~w.ok
    THEN [outcome |-> "BackendError", gridFiles |-> d.files,
          weightFiles |-> w.files, ev |-> s.ev \o d.ev \o w.ev,
          obj |-> NoRegridder]
    ELSE [outcome |-> "ok", gridFiles |-> d.files, weightFiles |-> w.files,
          ev |-> s.ev \o d.ev \o <<<<"read", path>>>> \o w.ev,
          obj |-> [name_grid_src |-> name_grid_src,
                   name_grid_dst |-> name_grid_dst,
                   grid_ref_src |-> s.obj, grid_ref_dst |-> d.obj,
                   method |-> method, clobber |-> clobber,
                   N_src |-> s.obj.shape[1] * s.obj.shape[2],
                   N_dst |-> d.obj.shape[1] * d.obj.shape[2],
                   weight_file |-> path,
                   A |-> read_weights(wf, path)]]

\* regridder.__init__ handing its clobber to the two grid_refs
regridder_clobbers_grids(gf, wf, name_grid_src, name_grid_dst, method, clobber, fails, S) ==
    LET s == grid_ref(gf, name_grid_src, clobber) IN
    IF ~s.ok
    THEN [outcome |-> "AssertionError", gridFiles |-> s.files,
          weightFiles |-> wf, ev |-> s.ev, obj |-> NoRegridder]
    ELSE
    LET d == grid_ref(s.files, name_grid_dst, clobber) IN
    IF ~d.ok
    THEN [outcome |-> "AssertionError", gridFiles |-> d.files,
          weightFiles |-> wf, ev |-> s.ev \o d.ev, obj |-> NoRegridder]
    ELSE
    LET w == gen_weights(wf, s.obj, d.obj, method, clobber, fails, S)
        path == weight_file(name_grid_src, name_grid_dst, method)
    IN
    IF ~w.ok
    THEN [outcome |-> "BackendError", gridFiles |-> d.files,
          weightFiles |-> w.files, ev |-> s.ev \o d.ev \o w.ev,
          obj |-> NoRegridder]
    ELSE [outcome |-> "ok", gridFiles |-> d.files, weightFiles |-> w.files,
          ev |-> s.ev \o d.ev \o w.ev \o <<<<"read", path>>>>,
          obj |-> [name_grid_src |-> name_grid_src,
                   name_grid_dst |-> name_grid_dst,
                   grid_ref_src |-> s.obj, grid_ref_dst |-> d.obj,
                   method |-> method, clobber |-> clobber,
                   N_src |-> s.obj.shape[1] * s.obj.shape[2],
                   N_dst |-> d.obj.shape[1] * d.obj.shape[2],
                   weight_file |-> path,
                   A |-> read_weights(w.files, path)]]

\* regridder.__init__: the grid and weight files afterwards, the outcome,
\* the events in the order the code produces them, and the object
regridder(gf, wf, name_grid_src, name_grid_dst, method, clobber, fails, S) ==
    LET s == grid_ref(gf, name_grid_src, FALSE) IN
    IF ~s.ok
    THEN [outcome |-> "AssertionError", gridFiles |-> s.files,
          weightFiles |-> wf, ev |-> s.ev, obj |-> NoRegridder]
    ELSE
    LET d == grid_ref(s.files, name_grid_dst, FALSE) IN
    IF ~d.ok
    THEN [outcome |-> "AssertionError", gridFiles |-> d.files,
          weightFiles |-> wf, ev |-> s.ev \o d.ev, obj |-> NoRegridder]
    ELSE
    LET w == gen_weights(wf, s.obj, d.obj, method, clobber, fails, S)
        path == weight_file(name_grid_src, name_grid_dst, method)
    IN
    IF ~w.ok
    THEN [outcome |-> "BackendError", gridFiles |-> d.files,
          weightFiles |-> w.files, ev |-> s.ev \o d.ev \o w.ev,
          obj |-> NoRegridder]
    ELSE [outcome |-> "ok", gridFiles |-> d.files, weightFiles |-> w.files,
          ev |-> s.ev \o d.ev \o w.ev \o <<<<"read", path>>>>,
          obj |-> [name_grid_src |-> name_grid_src,
                   name_grid_dst |-> name_grid_dst,
                   grid_ref_src |-> s.obj, grid_ref_dst |-> d.obj,
                   method |-> method, clobber |-> clobber,
                   N_src |-> s.obj.shape[1] * s.obj.shape[2],
                   N_dst |-> d.obj.shape[1] * d.obj.shape[2],
                   weight_file |-> path,
                   A |-> read_weights(w.files, path)]]

(***************************************************************************)
(* Numbers: a value is a fraction n/d with d > 0 in lowest terms, or NaN   *)
(***************************************************************************)
NaN == [n |-> 0, d |-> 0]

Num(k) == [n |-> k, d |-> 1]

\* np.isnan
isnan(v) == v.d = 0

Abs(k) == IF k < 0 THEN -k ELSE k

RECURSIVE Gcd(_, _)
Gcd(a, b) == IF b = 0 THEN a ELSE Gcd(b, a % b)

\* a / b of two arrays' elements; NaN if either is NaN
Divide(a, b) ==
    IF isnan(a) \/ isnan(b) \/ b.n = 0 THEN NaN
    ELSE LET num == a.n * b.d * (IF b.n < 0 THEN -1 ELSE 1)
             den == a.d * Abs(b.n)
             g == Gcd(Abs(num), den)
         IN  [n |-> num \div g, d |-> den \div g]

\* x > 0. (a comparison with NaN is false)
Positive(v) == ~isnan(v) /\ v.n > 0

RECURSIVE SumTo(_, _)
\* f[1] + ... + f[k]
SumTo(f, k) == IF k = 0 THEN 0 ELSE f[k] + SumTo(f, k - 1)

\* xe.smm.apply_weights(A, data, Ny, Nx): the sparse product A . data; only
\* the stored (non-zero) weights take part, and a NaN among the cells they
\* touch makes the sum NaN.  The data of the model are integers or NaN.
apply_weights(A, data) ==
    [i \in 1..Len(A) |->
        IF \E j \in 1..Len(data) : A[i][j] # 0 /\ isnan(data[j])
        THEN NaN
        ELSE Num(SumTo([j \in 1..Len(data) |->
                           IF A[i][j] = 0 THEN 0 ELSE A[i][j] * data[j].n],
                       Len(data)))]

(***************************************************************************)
(* regridder.regrid_dataarray                                              *)
(***************************************************************************)
\* ones_src = np.where(np.isnan(data_src), 0., 1.)
ones_of(data_src) ==
    [j \in 1..Len(data_src) |-> IF isnan(data_src[j]) THEN Num(0) ELSE Num(1)]

\* the source values left as they are, NaN included
not_filled(data_src) == data_src

\* data_src = np.where(np.isnan(data_src), 0., data_src)
zero_filled(data_src) ==
    [j \in 1..Len(data_src) |-> IF isnan(data_src[j]) THEN Num(0) ELSE data_src[j]]

\* lines 133-140: ones_dst = np.where(ones_dst > 0., ones_dst, np.nan);
\* data_dst = data_dst / ones_dst; np.where(ones_dst > 0., data_dst, np.nan)
renormalized(data_dst, ones_dst0) ==
    LET ones_dst == [i \in 1..Len(ones_dst0) |->
                        IF Positive(ones_dst0[i]) THEN ones_dst0[i] ELSE NaN]
        quotient == [i \in 1..Len(data_dst) |-> Divide(data_dst[i], ones_dst[i])]
    IN  [i \in 1..Len(data_dst) |->
            IF Positive(ones_dst[i]) THEN quotient[i] ELSE NaN]

\* lines 123-148: the remapped field as a DataArray.  stages lists the
\* operations applied to the values, in the order they were applied.
remap(self, da, renormalize) ==
    LET data_src == IF renormalize THEN zero_filled(da.values) ELSE da.values
        data_dst == apply_weights(self.A.S, data_src)
    IN  IF renormalize
        THEN [values |-> renormalized(data_dst,
                                      apply_weights(self.A.S, ones_of(da.values))),
              dims |-> da.dims,
              attrs |-> [regrid_method |-> self.method],
              stages |-> <<[op |-> "apply_weights", dim |-> "", arg |-> ""],
                           [op |-> "renormalize", dim |-> "", arg |-> ""]>>]
        ELSE [values |-> data_dst,
              dims |-> da.dims,
              attrs |-> [regrid_method |-> self.method],
              stages |-> <<[op |-> "apply_weights", dim |-> "", arg |-> ""]>>]

\* da_out.interp(coords = {dim: new_coord}, ...), da_out.where(apply_mask)
\* and post_method(da_out, **kwargs) are the caller's and xarray's: the
\* model keeps the array they are applied to and appends the application
applied(da, op, dim, arg) ==
    [da EXCEPT !.stages = Append(@, [op |-> op, dim |-> dim, arg |-> arg])]

RECURSIVE interpolate(_, _)
\* lines 152-161: for dim, new_coord in interp_coord.items()
interpolate(da, interp_coord) ==
    IF interp_coord = <<>> THEN da
    ELSE LET dim == Head(interp_coord)[1]
             new_coord == Head(interp_coord)[2]
         IN  IF InSeq(dim, da.dims)
             THEN interpolate(applied(da, "interp", dim, new_coord),
                              Tail(interp_coord))
             ELSE interpolate(da, Tail(interp_coord))

\* lines 164-168
masked(da, apply_mask) ==
    IF apply_mask # "None" THEN applied(da, "where", "", apply_mask) ELSE da

\* lines 171-172
post_processed(da, post_method, post_method_kwargs) ==
    IF post_method # "None"
    THEN applied(da, "post_method", "", post_method \o "(**" \o post_method_kwargs \o ")")
    ELSE da

\* the dims of a mask
mask_dims(apply_mask, dims) ==
    IF apply_mask = "mask2d" THEN <<"lat", "lon">> ELSE dims

\* lines 164-167: the warning logged when the mask's dims differ
mask_warning(da, apply_mask) ==
    IF apply_mask # "None" /\ mask_dims(apply_mask, da.dims) # da.dims
    THEN <<<<"warning", "masking">>>>
    ELSE <<>>

\* regrid_dataarray masking the remapped field before it interpolates
regrid_dataarray_masks_first(self, da, renormalize, apply_mask, interp_coord, post_method, post_method_kwargs) ==
    post_processed(
        interpolate(masked(remap(self, da, renormalize), apply_mask),
                    interp_coord),
        post_method, post_method_kwargs)

\* regridder.regrid_dataarray
regrid_dataarray(self, da, renormalize, apply_mask, interp_coord, post_method, post_method_kwargs) ==
    post_processed(
        masked(interpolate(remap(self, da, renormalize), interp_coord),
               apply_mask),
        post_method, post_method_kwargs)

(***************************************************************************)
(* The program: any sequence of constructions                              *)
(***************************************************************************)
CallRecord(op, a, b, m, c, outcome) ==
    [op |-> op, src |-> a, dst |-> b, method |-> m, clobber |-> c,
     outcome |-> outcome]

\* interp_coord = {} and post_method_kwargs = {} of lines 98-100, 110-114
DefaultArgs == [interp_coord |-> <<>>, post_method_kwargs |-> "{}"]

NoArgs ==
    [values |-> <<>>, dims |-> <<>>, renormalize |-> FALSE,
     apply_mask |-> "None", interp_coord |-> <<>>, post_method |-> "None",
     post_method_kwargs |-> "{}"]

NoData ==
    [values |-> <<>>, dims |-> <<>>, attrs |-> [regrid_method |-> ""],
     stages |-> <<>>]

\* the weights the backend computes in the runs of constructions
IdentityWeights == <<<<1, 0>>, <<0, 1>>>>

Init ==
    /\ gridFiles \in [GridPaths -> {Absent, 1}]
    /\ weightFiles = [p \in WeightPaths |-> NoWeights]
    /\ last = CallRecord("none", "", "", "", FALSE, "ok")
    /\ events = <<>>
    /\ gr = NoObject
    /\ rg = NoRegridder
    /\ defaults = DefaultArgs
    /\ da_in = NoArgs
    /\ da_out = NoData

\* g = grid_ref(name, clobber)
NewGridRef ==
    \E name \in GridNames, clobber \in BOOLEAN :
        LET r == grid_ref(gridFiles, name, clobber) IN
        /\ \A p \in GridPaths : r.files[p] <= MaxVersion
        /\ gridFiles' = r.files
        /\ events' = r.ev
        /\ gr' = r.obj
        /\ rg' = NoRegridder
        /\ last' = CallRecord("grid_ref", name, "", "", clobber,
                              IF r.ok THEN "ok" ELSE "AssertionError")
        /\ UNCHANGED <<weightFiles, defaults, da_in, da_out>>

\* r = regridder(name_grid_src, name_grid_dst, method, clobber)
NewRegridder ==
    \E pair \in RegridPairs, method \in Methods,
       clobber \in BOOLEAN, fails \in BOOLEAN :
        LET src == pair[1]
            dst == pair[2]
            r == regridder(gridFiles, weightFiles, src, dst, method,
                           clobber, fails, IdentityWeights)
        IN
        /\ \A p \in GridPaths : r.gridFiles[p] <= MaxVersion
        /\ fails => r.outcome = "BackendError"
        /\ gridFiles' = r.gridFiles
        /\ weightFiles' = r.weightFiles
        /\ events' = r.ev
        /\ gr' = NoObject
        /\ rg' = r.obj
        /\ last' = CallRecord("regridder", src, dst, method, clobber, r.outcome)
        /\ UNCHANGED <<defaults, da_in, da_out>>

Next == NewGridRef \/ NewRegridder

Spec == Init /\ [][Next]_vars

(***************************************************************************)
(* The program: a regridder applied to a DataArray                         *)
(***************************************************************************)
Weights == {-1, 0, 1}

Matrices == [1..2 -> [1..2 -> Weights]]

Values == {NaN} \cup {Num(k) : k \in 0..MaxValue}

DimsSet == {<<"z", "lat", "lon">>, <<"time", "z", "lat", "lon">>}

InterpCoords ==
    {<<<<"z", "new_z">>>>, <<<<"time", "new_t">>>>,
     <<<<"z", "new_z">>, <<"time", "new_t">>>>,
     <<<<"time", "new_t">>, <<"z", "new_z">>>>}

\* the arguments of a call; interp_coord and post_method_kwargs are passed
\* or left to their defaults
Arguments ==
    {[values |-> v, dims |-> d, renormalize |-> r, apply_mask |-> m,
      interp_coord |-> ic, post_method |-> pm, post_method_kwargs |-> kw] :
        v \in [1..2 -> Values], d \in DimsSet, r \in BOOLEAN,
        m \in {"None", "mask", "mask2d"},
        ic \in InterpCoords \cup {DefaultArgs.interp_coord},
        pm \in {"None", "f"},
        kw \in {DefaultArgs.post_method_kwargs}}

\* a regridder constructed in an empty cache, and the arguments of the call
InitRegrid ==
    \E S \in Matrices :
        LET r == regridder([p \in GridPaths |-> Absent],
                           [p \in WeightPaths |-> NoWeights],
                           "g", "g_to_g", "bilinear", FALSE, FALSE, S)
        IN
        /\ gridFiles = r.gridFiles
        /\ weightFiles = r.weightFiles
        /\ events = r.ev
        /\ gr = NoObject
        /\ rg = r.obj
        /\ last = CallRecord("regridder", "g", "g_to_g", "bilinear", FALSE,
                             r.outcome)
        /\ defaults = DefaultArgs
        /\ da_in \in Arguments
        /\ da_out = NoData

\* a call that keeps the interpolation method in self.method
CallRegridder_sets_method ==
    /\ rg # NoRegridder
    /\ da_out' = regrid_dataarray(rg, da_in, da_in.renormalize,
                                  da_in.apply_mask, da_in.interp_coord,
                                  da_in.post_method, da_in.post_method_kwargs)
    /\ events' = mask_warning(da_in, da_in.apply_mask)
    /\ last' = CallRecord("call", "", "", "", FALSE, "ok")
    /\ rg' = IF da_in.interp_coord # <<>>
             THEN [rg EXCEPT !.method = "linear"] ELSE rg
    /\ UNCHANGED <<gridFiles, weightFiles, gr, defaults, da_in>>

\* da_out = rg(da_in, renormalize, apply_mask, interp_coord, post_method,
\*             post_method_kwargs)
CallRegridder ==
    /\ rg # NoRegridder
    /\ da_out' = regrid_dataarray(rg, da_in, da_in.renormalize,
                                  da_in.apply_mask, da_in.interp_coord,
                                  da_in.post_method, da_in.post_method_kwargs)
    /\ events' = mask_warning(da_in, da_in.apply_mask)
    /\ last' = CallRecord("call", "", "", "", FALSE, "ok")
    /\ UNCHANGED <<gridFiles, weightFiles, gr, rg, defaults, da_in>>

NextRegrid == CallRegridder

SpecRegrid == InitRegrid /\ [][NextRegrid]_vars

(***************************************************************************)
(* Claims about the constructions (specification Spec)                     *)
(***************************************************************************)
IsGridRefStep == last'.op = "grid_ref"

IsRegridderStep == last'.op = "regridder"

\* C1: when grid_ref(name, clobber) is constructed for a known grid, the
\* generation helper runs if and only if the grid file is absent at that
\* moment or clobber is set; when it runs the file holds a new generation
\* afterwards, and with the file present and clobber=False the construction
\* reuses the file and writes nothing.
C1_GenerateIffAbsentOrClobber ==
    [][(IsGridRefStep /\ last'.src \in known_grids) =>
         LET path == scrip_grid_file(last'.src)
             generated == InSeq(<<"gen_grid", path>>, events')
         IN  /\ generated <=> (gridFiles[path] = Absent \/ last'.clobber)
             /\ generated => /\ gridFiles'[path] # Absent
                             /\ gridFiles'[path] # gridFiles[path]
             /\ ~generated => /\ gridFiles' = gridFiles
                              /\ gr'.grid = gridFiles[path]
             /\ last'.outcome = "ok"
             /\ weightFiles' = weightFiles]_vars

\* a grid file that was regenerated is reused by a construction with
\* clobber=False
C1_Witness ==
    /\ last.op = "grid_ref" /\ last.src \in known_grids /\ ~last.clobber
    /\ events = <<>>
    /\ gridFiles[scrip_grid_file(last.src)] = 2
    /\ gr.grid = 2

\* C2 as stated: every grid_ref construction with a name that is not a key
\* of known_grids fails the assertion and yields no grid reference.
C2_UnknownAlwaysRejected ==
    (last.op = "grid_ref" /\ last.src \notin known_grids) =>
        (last.outcome = "AssertionError" /\ gr = NoObject)

\* C2 amended: a grid_ref construction with an unknown name fails the
\* assertion, yielding no grid reference and changing no file, when the grid
\* file is absent or clobber is set; when the file exists and clobber=False
\* the construction succeeds on the existing file without the assertion
\* being evaluated.
C2_UnknownRejectedUnlessCached ==
    [][(IsGridRefStep /\ last'.src \notin known_grids) =>
         LET path == scrip_grid_file(last'.src) IN
         /\ gridFiles' = gridFiles
         /\ events' = <<>>
         /\ IF gridFiles[path] = Absent \/ last'.clobber
            THEN last'.outcome = "AssertionError" /\ gr' = NoObject
            ELSE /\ last'.outcome = "ok"
                 /\ gr'.name = last'.src
                 /\ gr'.grid = gridFiles[path]]_vars

\* an unknown name was rejected although its file is in the cache
C2_Witness ==
    /\ last.op = "grid_ref" /\ last.src \notin known_grids
    /\ last.outcome = "AssertionError" /\ gr = NoObject
    /\ last.clobber
    /\ gridFiles[scrip_grid_file(last.src)] # Absent

\* C3: in a regridder construction that reaches _gen_weights (both
\* grid_refs were constructed), the backend build runs if and only if the
\* weight file is absent or clobber is set; an existing file is removed
\* before the build when clobber is set and is neither removed nor rewritten
\* when it is not; the weights are read only after that, as the last event,
\* and are the content of the weight file.
C3_BuildIffAbsentOrClobber ==
    [][(IsRegridderStep /\ last'.outcome # "AssertionError") =>
         LET path == weight_file(last'.src, last'.dst, last'.method)
             present == weightFiles[path] # NoWeights
             built == InSeq(<<"build", path>>, events')
             removed == InSeq(<<"remove", path>>, events')
         IN  /\ built <=> (~present \/ last'.clobber)
             /\ removed <=> (present /\ last'.clobber)
             /\ removed => IndexOf(<<"remove", path>>, events')
                              < IndexOf(<<"build", path>>, events')
             /\ (present /\ ~last'.clobber) => weightFiles' = weightFiles
             /\ last'.outcome = "ok" =>
                  /\ events'[Len(events')] = <<"read", path>>
                  /\ IndexOf(<<"read", path>>, events') = Len(events')
                  /\ rg'.A = weightFiles'[path]
                  /\ rg'.A # NoWeights
             /\ last'.outcome # "ok" => ~InSeq(<<"read", path>>, events')]_vars

\* an existing weight file was removed, rebuilt and then read
C3_Witness ==
    /\ last.op = "regridder" /\ last.clobber /\ last.outcome = "ok"
    /\ LET path == weight_file(last.src, last.dst, last.method) IN
       events = <<<<"remove", path>>, <<"build", path>>, <<"read", path>>>>

\* C4: the regridder a construction returns holds weights that were built
\* for its own (source grid, destination grid, method): the weight-file path
\* is shared by no two triples.
C4_WeightsBuiltForOwnTriple ==
    (last.op = "regridder" /\ last.outcome = "ok") =>
        /\ rg.A.src = rg.name_grid_src
        /\ rg.A.dst = rg.name_grid_dst
        /\ rg.A.method = rg.method

\* C8: a regridder construction, with clobber=True or clobber=False, leaves
\* every grid file that exists as it is; the generation helper runs only for
\* the source or destination grid, and only when its file is absent.
C8_RegridderKeepsGridFiles ==
    [][IsRegridderStep =>
         \A name \in GridNames :
            LET path == scrip_grid_file(name)
                generated == InSeq(<<"gen_grid", path>>, events')
            IN  /\ gridFiles[path] # Absent =>
                     (gridFiles'[path] = gridFiles[path] /\ ~generated)
                /\ generated =>
                     (gridFiles[path] = Absent /\ name \in {last'.src, last'.dst})
                /\ gridFiles'[path] # gridFiles[path] => generated]_vars

\* a regridder built with clobber=True over existing grid files: the weight
\* file was rebuilt, no grid file was
C8_Witness ==
    /\ last.op = "regridder" /\ last.clobber /\ last.outcome = "ok"
    /\ InSeq(<<"build", rg.weight_file>>, events)
    /\ \A name \in GridNames : ~InSeq(<<"gen_grid", scrip_grid_file(name)>>, events)
    /\ rg.grid_ref_src.grid = 2

\* C9 as stated, for the weight files built for the regridder's own triple:
\* the weights a constructed regridder loads were computed from the
\* generations of the two grid files that are in the cache at that time.
C9_WeightsFromCurrentGridFiles ==
    (/\ last.op = "regridder" /\ last.outcome = "ok"
     /\ rg.A.src = rg.name_grid_src /\ rg.A.dst = rg.name_grid_dst
     /\ rg.A.method = rg.method) =>
        /\ rg.A.vsrc = gridFiles[scrip_grid_file(rg.name_grid_src)]
        /\ rg.A.vdst = gridFiles[scrip_grid_file(rg.name_grid_dst)]

\* C9 amended: the weights a constructed regridder loads are the content of
\* the file at its weight path; they were computed in this construction,
\* from the two grid files as they are in the cache, when the file was
\* absent or clobber is set, and otherwise are the file exactly as it was
\* found, whatever the grid files have become since it was built.
C9_WeightsFromFileAsFound ==
    [][(IsRegridderStep /\ last'.outcome = "ok") =>
         LET path == weight_file(last'.src, last'.dst, last'.method) IN
         /\ rg'.weight_file = path
         /\ rg'.A = weightFiles'[path]
         /\ IF weightFiles[path] = NoWeights \/ last'.clobber
            THEN /\ rg'.A.src = last'.src
                 /\ rg'.A.dst = last'.dst
                 /\ rg'.A.method = last'.method
                 /\ rg'.A.vsrc = gridFiles'[scrip_grid_file(last'.src)]
                 /\ rg'.A.vdst = gridFiles'[scrip_grid_file(last'.dst)]
            ELSE rg'.A = weightFiles[path]]_vars

\* a regridder that loaded weights built for its triple from a source grid
\* file that has been regenerated since
C9_Witness ==
    /\ last.op = "regridder" /\ last.outcome = "ok" /\ ~last.clobber
    /\ rg.A.src = rg.name_grid_src /\ rg.A.dst = rg.name_grid_dst
    /\ rg.A.vsrc < gridFiles[scrip_grid_file(rg.name_grid_src)]
    /\ events = <<<<"read", rg.weight_file>>>>

\* C10 as stated: a regridder construction that fails leaves the grid files
\* and the weight files exactly as they were.
C10_FailureLeavesCaches ==
    [][(IsRegridderStep /\ last'.outcome # "ok") =>
         (gridFiles' = gridFiles /\ weightFiles' = weightFiles)]_vars

\* C10 amended: a regridder construction that fails rolls nothing back.
\* Every grid file that existed is unchanged and every other weight file is
\* unchanged, but the grid files generated before the failure stay, and a
\* weight file of the triple is untouched only when the failure is the
\* assertion or clobber=False: with clobber=True it was removed before the
\* backend failed.
C10_FailureKeepsWhatWasDone ==
    [][(IsRegridderStep /\ last'.outcome # "ok") =>
         LET path == weight_file(last'.src, last'.dst, last'.method)
             present == weightFiles[path] # NoWeights
         IN  /\ rg' = NoRegridder
             /\ \A p \in GridPaths :
                  /\ gridFiles[p] # Absent => gridFiles'[p] = gridFiles[p]
                  /\ gridFiles'[p] # gridFiles[p] =>
                        /\ InSeq(<<"gen_grid", p>>, events')
                        /\ p \in {scrip_grid_file(last'.src),
                                  scrip_grid_file(last'.dst)}
             /\ \A q \in WeightPaths : q # path => weightFiles'[q] = weightFiles[q]
             /\ (last'.outcome = "AssertionError" \/ ~last'.clobber)
                   => weightFiles' = weightFiles
             /\ (last'.outcome = "BackendError" /\ last'.clobber /\ present)
                   => /\ InSeq(<<"remove", path>>, events')
                      /\ weightFiles'[path] # weightFiles[path]
             /\ last'.outcome = "BackendError" => (last'.clobber \/ ~present)]_vars

\* a construction with clobber=True failed in the backend after it had
\* removed the cached weight file
C10_Witness ==
    /\ last.op = "regridder" /\ last.outcome = "BackendError" /\ last.clobber
    /\ LET path == weight_file(last.src, last.dst, last.method) IN
       /\ events = <<<<"remove", path>>, <<"build", path>>>>
       /\ weightFiles[path] = NoWeights
    /\ rg = NoRegridder

(***************************************************************************)
(* Claims about regridder.__call__ (specification SpecRegrid)              *)
(***************************************************************************)
\* C5: a call of the regridder leaves the regridder's fields (grid names,
\* grid references, method, clobber, N_src, N_dst, weight_file, A), the
\* default argument objects and the grid and weight files unchanged,
\* whatever renormalize, apply_mask, interp_coord and post_method are.
C5_CallLeavesRegridder ==
    [][last'.op = "call" =>
         /\ rg' = rg
         /\ defaults' = defaults
         /\ gridFiles' = gridFiles
         /\ weightFiles' = weightFiles]_vars

\* a call with every optional stage enabled has returned
C5_Witness ==
    /\ last.op = "call" /\ rg # NoRegridder /\ rg.method = "bilinear"
    /\ da_in.renormalize /\ da_in.apply_mask # "None"
    /\ da_in.interp_coord # <<>> /\ da_in.post_method # "None"
    /\ da_out # NoData
    /\ weightFiles[rg.weight_file] = rg.A

\* the interp_coord entries whose dimension is a dimension of the array
InterpStages(args) ==
    LET kept == SelectSeq(args.interp_coord, LAMBDA e : InSeq(e[1], args.dims))
    IN  [k \in 1..Len(kept) |->
            [op |-> "interp", dim |-> kept[k][1], arg |-> kept[k][2]]]

\* C6: the array a call returns went through weight application, then
\* renormalization if renormalize, then one interpolation per interp_coord
\* entry whose dimension is a dimension of the array (in the entries' order,
\* the other entries skipped), then the mask if apply_mask is given, then
\* post_method if given, and nothing after it.
C6_StagesInOrder ==
    last.op = "call" =>
        da_out.stages =
            <<[op |-> "apply_weights", dim |-> "", arg |-> ""]>>
            \o (IF da_in.renormalize
                THEN <<[op |-> "renormalize", dim |-> "", arg |-> ""]>>
                ELSE <<>>)
            \o InterpStages(da_in)
            \o (IF da_in.apply_mask # "None"
                THEN <<[op |-> "where", dim |-> "", arg |-> da_in.apply_mask]>>
                ELSE <<>>)
            \o (IF da_in.post_method # "None"
                THEN <<[op |-> "post_method", dim |-> "",
                        arg |-> da_in.post_method \o "(**"
                                \o da_in.post_method_kwargs \o ")"]>>
                ELSE <<>>)

\* every stage ran, and an interp_coord entry naming a dimension the array
\* does not have was skipped
C6_Witness ==
    /\ last.op = "call"
    /\ da_in.dims = <<"z", "lat", "lon">>
    /\ da_in.interp_coord = <<<<"time", "new_t">>, <<"z", "new_z">>>>
    /\ Len(da_out.stages) = 5
    /\ da_out.stages[3].op = "interp" /\ da_out.stages[4].op = "where"
    /\ da_out.stages[5].op = "post_method"

\* the source cells that are not missing
PresentCells(values) == {j \in 1..Len(values) : ~isnan(values[j])}

RECURSIVE SumOver(_, _)
\* the sum of f[j] over the cells j of a set
SumOver(f, cells) ==
    IF cells = {} THEN 0
    ELSE LET j == CHOOSE c \in cells : TRUE
         IN  f[j] + SumOver(f, cells \ {j})

\* C7: with renormalize=True, at every destination cell the output is
\* missing if and only if the weighted sum of the non-missing indicator is
\* not greater than zero, and otherwise it is the weighted sum of the
\* non-missing source values divided by the weighted sum of the indicator;
\* missing source cells add nothing and make no output NaN by themselves.
C7_Renormalized ==
    (last.op = "call" /\ da_in.renormalize) =>
        \A i \in 1..rg.N_dst :
            LET w == rg.A.S[i]
                cells == PresentCells(da_in.values)
                ind == SumOver([j \in 1..rg.N_src |-> w[j]], cells)
                val == SumOver([j \in 1..rg.N_src |-> w[j] * da_in.values[j].n],
                               cells)
                out == da_out.values[i]
            IN  /\ isnan(out) <=> ~(ind > 0)
                /\ ind > 0 => (out.d > 0 /\ out.n * ind = val * out.d)

\* a destination cell fed by a missing and a non-missing source cell got the
\* value of the non-missing one
C7_Witness ==
    /\ last.op = "call" /\ da_in.renormalize
    /\ isnan(da_in.values[1]) /\ da_in.values[2] = Num(1)
    /\ rg.A.S[1] = <<1, 1>>
    /\ da_out.values[1] = Num(1)

====
